---- MODULE Spec2Model ----
(***************************************************************************)
(* Model of bsky_bridge.BskySession (src/bsky_bridge/bsky_session.py):     *)
(* session bootstrap from the session file, the Create / Refresh token     *)
(* lifecycle with write-through persistence, the guarded api_call with its *)
(* retry budget, and logout.                                               *)
(*                                                                         *)
(* The instance fields and the session file are shared state; everything   *)
(* a running method holds in locals lives in thr[t], one record per thread *)
(* of control.  thr[t].trace is the log of what the current top-level      *)
(* operation of t has done so far (requests sent, lifecycle operations     *)
(* invoked and how they ended).                                            *)
(***************************************************************************)
EXTENDS Integers, Sequences, FiniteSets, TLC

VARIABLES access_token, refresh_token, did, file, thr, active

vars == <<access_token, refresh_token, did, file, thr, active>>

fields == <<access_token, refresh_token, did>>

----------------------------------------------------------------------------
(* Values *)

\* Python's None (absent field); prints as "None" inside an f-string
None == "None"

\* largest retry budget a caller passes to api_call
MaxRetry == 2

\* default of api_call's retry parameter
DefaultRetry == 1

Threads == {"t1", "t2"}

AccessJwts == {"A1", "A2"}

RefreshJwts == {"R1", "R2"}

Dids == {"did1"}

\* what a caller passes to api_call: endpoint, method and payload
Args == {"getProfile", "createRecord"}

Keys == {"accessJwt", "refreshJwt", "did"}

\* the credentials held by the instance
Handle == "alice.bsky.social"

AppPassword == "app-password"

\* statuses the endpoint answers with
Statuses == {200, 400, 401, 500}

\* resp.status_code in [401, 400]
AuthFailureSet == {401, 400}

\* bodies of a 2xx createSession / refreshSession response:
\* {accessJwt, refreshJwt?, did}
Responses == [accessJwt : AccessJwts, refreshJwt : RefreshJwts \cup {None}, did : Dids]

\* outcomes of requests.post followed by resp.raise_for_status()
Exchanges == {"transport", "http_error", "ok"}

EmptyDict == [k \in {} |-> None]

\* dict.get(key): None when the key is missing
Get(d, k) == IF k \in DOMAIN d THEN d[k] ELSE None

----------------------------------------------------------------------------
(* The session file *)

Absent == [kind |-> "absent", data |-> EmptyDict]

\* content json.load rejects (JSONDecodeError), e.g. a truncated write
Corrupt == [kind |-> "corrupt", data |-> EmptyDict]

\* valid JSON that is not an object, e.g. [] : json.load accepts it, .get fails
NonRecord == [kind |-> "nonrecord", data |-> EmptyDict]

Record(d) == [kind |-> "record", data |-> d]

ValuesOf(k) ==
    CASE k = "accessJwt" -> AccessJwts \cup {None}
      [] k = "refreshJwt" -> RefreshJwts \cup {None}
      [] k = "did" -> Dids \cup {None}

AllValues == AccessJwts \cup RefreshJwts \cup Dids \cup {None}

\* JSON objects over (a subset of) the three keys, null allowed
Dicts == UNION {{d \in [K -> AllValues] : \A k \in K : d[k] \in ValuesOf(k)} : K \in SUBSET Keys}

\* what may lie at session_file when the process starts
InitialFiles == {Absent, Corrupt, NonRecord} \cup {Record(d) : d \in Dicts}

\* os.path.exists(self.session_file)
Exists(f) == f.kind # "absent"

----------------------------------------------------------------------------
(* Pure parts of the methods *)

\* get_auth_header: {"Authorization": f"Bearer {self.access_token}"}
GetAuthHeader(tok) == <<"Bearer", tok>>

\* resp.raise_for_status(): the error raised for the status, "none" if it passes
RaiseForStatus(s) == IF s >= 400 /\ s < 600 THEN "HTTPError" ELSE "none"

ShouldRecover_NoBudgetTest(s, n) == s \in AuthFailureSet /\ n >= 0

ShouldRecover_AnyError(s, n) == s >= 400 /\ n > 0

\* api_call: resp.status_code in [401, 400] and retry > 0
ShouldRecover(s, n) == s \in AuthFailureSet /\ n > 0

FirstRecoveryPc_CreateFirst == "c_post"

\* api_call: the operation the recovery starts with (self._refresh_access_token())
FirstRecoveryPc == "r_check"

Catches_OSError(e) == e \in {"ConnectionError", "IOError"}

\* api_call: except ConnectionError around _refresh_access_token
Catches(e) == e = "ConnectionError"

ExchangeError_NoRaiseForStatus(x) ==
    CASE x = "transport" -> "UnboundLocalError"
      [] x = "http_error" -> "none"
      [] x = "ok" -> "none"

\* _create_session / _refresh_access_token: what the try/except around
\* requests.post + raise_for_status ends with.  With no response the handler
\* reads the unassigned local resp (getattr(resp, ...)) and dies there.
ExchangeError(x) ==
    CASE x = "transport" -> "UnboundLocalError"
      [] x = "http_error" -> "ConnectionError"
      [] x = "ok" -> "none"

SavedDict_Swapped(a, r, d) == [accessJwt |-> r, refreshJwt |-> a, did |-> d]

SavedDict_WithCredentials(a, r, d) ==
    [accessJwt |-> a, refreshJwt |-> r, did |-> d, password |-> AppPassword]

\* _save_session: the dict that is dumped
SavedDict(a, r, d) == [accessJwt |-> a, refreshJwt |-> r, did |-> d]

LoadedFields_Swapped(d) == <<Get(d, "refreshJwt"), Get(d, "accessJwt"), Get(d, "did")>>

\* _load_session: (access_token, refresh_token, did) taken from the decoded dict
LoadedFields(d) == <<Get(d, "accessJwt"), Get(d, "refreshJwt"), Get(d, "did")>>

\* _load_session: what os.path.exists / open / json.load make of the file;
\* readable = FALSE is open() or read() failing with IOError
Found(f, readable) ==
    IF ~Exists(f) THEN "absent" ELSE IF ~readable THEN "unreadable" ELSE f.kind

LoadBranch_DecodeErrorEscapes(found) ==
    CASE found = "absent" -> "create"
      [] found = "unreadable" -> "create"
      [] found = "corrupt" -> "raise"
      [] found = "nonrecord" -> "raise"
      [] found = "record" -> "load"

\* _load_session: no file, IOError, JSONDecodeError -> _create_session();
\* a decoded object is taken over; a decoded non-object fails at session.get
LoadBranch(found) ==
    CASE found = "absent" -> "create"
      [] found = "unreadable" -> "create"
      [] found = "corrupt" -> "create"
      [] found = "nonrecord" -> "raise"
      [] found = "record" -> "load"

\* the error that leaves _load_session when nothing catches it
LoadError(found) == IF found = "nonrecord" THEN "AttributeError" ELSE "JSONDecodeError"

RaisedPc_Swallowed(cur) == IF cur = "init" THEN "idle" ELSE "raised"

\* where an exception that leaves the running method puts its caller:
\* the constructor raised (no instance), or api_call raised
RaisedPc(cur) == IF cur = "init" THEN "init_raised" ELSE "raised"

\* where a lifecycle operation returns to: the constructor returns, or
\* api_call goes on to the retry (headers.update + recursive call)
ReturnPc(cur) == IF cur = "init" THEN "idle" ELSE "retry"

\* positions from which the program may start another top-level operation
Ready == {"idle", "returned", "raised", "logged_out"}

----------------------------------------------------------------------------
(* State *)

Locals ==
    [pc |-> "new", cur |-> "none", op |-> "none", retry |-> 0, budget |-> 0,
     headers |-> GetAuthHeader(None), status |-> 0, statuses |-> <<>>,
     session |-> EmptyDict, dump |-> EmptyDict,
     exchange |-> "none", err |-> "none", trace |-> <<>>,
     args |-> "none", sent |-> <<>>]

Init ==
    /\ access_token = None
    /\ refresh_token = None
    /\ did = None
    /\ file \in InitialFiles
    /\ thr = [t \in Threads |-> Locals]
    /\ active = {"t1"}

Set(t, r) == thr' = [thr EXCEPT ![t] = r]

Log(r, e) == [r EXCEPT !.trace = Append(@, e)]

----------------------------------------------------------------------------
(* __init__ and _load_session *)

\* __init__ up to the call of _load_session (a process starting on the file)
BskySession_init(t) ==
    /\ thr[t].pc \in Ready \cup {"new", "init_raised"}
    /\ access_token' = None
    /\ refresh_token' = None
    /\ did' = None
    /\ Set(t, [Locals EXCEPT !.pc = "load", !.cur = "init"])
    /\ UNCHANGED <<file, active>>

\* the trace starts with what was found at session_file
LoadSession(t) ==
    /\ thr[t].pc = "load"
    /\ \E readable \in BOOLEAN :
         LET found == Found(file, readable)
             r == Log(thr[t], found)
         IN
         IF LoadBranch(found) = "load"
         THEN /\ access_token' = LoadedFields(file.data)[1]
              /\ refresh_token' = LoadedFields(file.data)[2]
              /\ did' = LoadedFields(file.data)[3]
              /\ Set(t, Log([r EXCEPT !.pc = "idle"], "loaded"))
         ELSE IF LoadBranch(found) = "create"
         THEN /\ Set(t, [r EXCEPT !.pc = "c_post"])
              /\ UNCHANGED fields
         ELSE /\ Set(t, [r EXCEPT !.pc = RaisedPc(r.cur), !.err = LoadError(found)])
              /\ UNCHANGED fields
    /\ UNCHANGED <<file, active>>

----------------------------------------------------------------------------
(* _create_session *)

CreateSession_post(t) ==
    /\ thr[t].pc = "c_post"
    /\ \E x \in Exchanges, body \in Responses :
         LET r == Log([thr[t] EXCEPT !.op = "Create", !.exchange = x], "create") IN
         IF ExchangeError(x) = "none"
         THEN Set(t, [r EXCEPT !.pc = "c_access", !.session = body])
         ELSE Set(t, Log([r EXCEPT !.pc = RaisedPc(r.cur), !.err = ExchangeError(x)],
                         "create_fail"))
    /\ UNCHANGED <<fields, file, active>>

CreateSession_access(t) ==
    /\ thr[t].pc = "c_access"
    /\ access_token' = thr[t].session["accessJwt"]
    /\ Set(t, [thr[t] EXCEPT !.pc = "c_refresh"])
    /\ UNCHANGED <<refresh_token, did, file, active>>

CreateSession_refresh(t) ==
    /\ thr[t].pc = "c_refresh"
    /\ refresh_token' = Get(thr[t].session, "refreshJwt")
    /\ Set(t, [thr[t] EXCEPT !.pc = "c_did"])
    /\ UNCHANGED <<access_token, did, file, active>>

CreateSession_did(t) ==
    /\ thr[t].pc = "c_did"
    /\ did' = thr[t].session["did"]
    /\ Set(t, [thr[t] EXCEPT !.pc = "save_build"])
    /\ UNCHANGED <<access_token, refresh_token, file, active>>

----------------------------------------------------------------------------
(* _save_session *)

OkEvent(op) == IF op = "Create" THEN "create_ok" ELSE "refresh_ok"

FailEvent(op) == IF op = "Create" THEN "create_fail" ELSE "refresh_fail"

\* where an exception raised inside the lifecycle operation op lands:
\* _refresh_access_token only runs inside api_call's inner try
FailPc(op, cur) == IF op = "Refresh" THEN "r_except" ELSE RaisedPc(cur)

\* session = {...}: the three fields are read into the dict
SaveSession_build(t) ==
    /\ thr[t].pc = "save_build"
    /\ Set(t, [thr[t] EXCEPT !.pc = "save_write",
                             !.dump = SavedDict(access_token, refresh_token, did)])
    /\ UNCHANGED <<fields, file, active>>

\* open(session_file, 'w') + json.dump; on IOError the file is left as it was
\* (open failed) or truncated (the write failed), and the error is re-raised
SaveSession_write(t) ==
    /\ thr[t].pc = "save_write"
    /\ \/ /\ file' = Record(thr[t].dump)
          /\ Set(t, Log([thr[t] EXCEPT !.pc = ReturnPc(thr[t].cur)], OkEvent(thr[t].op)))
       \/ /\ file' \in {file, Corrupt}
          /\ Set(t, Log(Log([thr[t] EXCEPT !.pc = FailPc(thr[t].op, thr[t].cur),
                                           !.err = "IOError"],
                            "save_failed"),
                        FailEvent(thr[t].op)))
    /\ UNCHANGED <<fields, active>>

----------------------------------------------------------------------------
(* _refresh_access_token *)

RefreshAccessToken_check_NoTest(t) ==
    /\ thr[t].pc = "r_check"
    /\ Set(t, Log([thr[t] EXCEPT !.op = "Refresh", !.pc = "r_post"], "refresh"))
    /\ UNCHANGED <<fields, file, active>>

\* if not self.refresh_token: raise ValueError
RefreshAccessToken_check(t) ==
    /\ thr[t].pc = "r_check"
    /\ LET r == Log([thr[t] EXCEPT !.op = "Refresh"], "refresh") IN
       IF refresh_token = None
       THEN Set(t, Log(Log([r EXCEPT !.pc = "r_except", !.err = "ValueError"],
                           "missing_token"), "refresh_fail"))
       ELSE Set(t, [r EXCEPT !.pc = "r_post"])
    /\ UNCHANGED <<fields, file, active>>

RefreshAccessToken_post(t) ==
    /\ thr[t].pc = "r_post"
    /\ \E x \in Exchanges, body \in Responses :
         LET r == Log([thr[t] EXCEPT !.exchange = x], "refresh_post") IN
         IF ExchangeError(x) = "none"
         THEN Set(t, [r EXCEPT !.pc = "r_access", !.session = body])
         ELSE Set(t, Log([r EXCEPT !.pc = "r_except", !.err = ExchangeError(x)],
                         "refresh_fail"))
    /\ UNCHANGED <<fields, file, active>>

RefreshAccessToken_access(t) ==
    /\ thr[t].pc = "r_access"
    /\ access_token' = thr[t].session["accessJwt"]
    /\ Set(t, [thr[t] EXCEPT !.pc = "r_refresh"])
    /\ UNCHANGED <<refresh_token, did, file, active>>

RefreshAccessToken_refresh(t) ==
    /\ thr[t].pc = "r_refresh"
    /\ refresh_token' = Get(thr[t].session, "refreshJwt")
    /\ Set(t, [thr[t] EXCEPT !.pc = "r_did"])
    /\ UNCHANGED <<access_token, did, file, active>>

RefreshAccessToken_did(t) ==
    /\ thr[t].pc = "r_did"
    /\ did' = thr[t].session["did"]
    /\ Set(t, [thr[t] EXCEPT !.pc = "save_build"])
    /\ UNCHANGED <<access_token, refresh_token, file, active>>

----------------------------------------------------------------------------
(* api_call *)

\* what goes out with requests.request: the caller's arguments and the
\* Authorization header built before; current is access_token at that moment
Sent(r, tok) == [args |-> r.args, bearer |-> r.headers, current |-> tok]

\* entry: headers.update(self.get_auth_header())
ApiCall(t) ==
    /\ thr[t].pc \in Ready
    /\ \E n \in 0..MaxRetry, a \in Args :
         Set(t, [Locals EXCEPT !.pc = "request", !.cur = "api_call", !.retry = n,
                               !.budget = n, !.args = a,
                               !.headers = GetAuthHeader(access_token)])
    /\ UNCHANGED <<fields, file, active>>

\* requests.request(...): a transport failure is a requests.RequestException,
\* logged by the outer handler and re-raised
ApiRequest(t) ==
    /\ thr[t].pc = "request"
    /\ LET r == Log([thr[t] EXCEPT !.sent = Append(@, Sent(thr[t], access_token))],
                    "request")
       IN
       \/ Set(t, [r EXCEPT !.pc = "raised", !.err = "RequestException"])
       \/ \E s \in Statuses :
            Set(t, [r EXCEPT !.pc = "dispatch", !.status = s,
                             !.statuses = Append(@, s)])
    /\ UNCHANGED <<fields, file, active>>

\* the test on the response: recover, or raise_for_status / return resp.json()
ApiDispatch(t) ==
    /\ thr[t].pc = "dispatch"
    /\ IF ShouldRecover(thr[t].status, thr[t].retry)
       THEN Set(t, Log([thr[t] EXCEPT !.pc = FirstRecoveryPc], "recover"))
       ELSE IF RaiseForStatus(thr[t].status) # "none"
            THEN Set(t, [thr[t] EXCEPT !.pc = "raised",
                                       !.err = RaiseForStatus(thr[t].status)])
            ELSE Set(t, [thr[t] EXCEPT !.pc = "returned"])
    /\ UNCHANGED <<fields, file, active>>

\* _refresh_access_token raised: except ConnectionError -> _create_session,
\* anything else leaves api_call
ApiExcept(t) ==
    /\ thr[t].pc = "r_except"
    /\ IF Catches(thr[t].err)
       THEN Set(t, [thr[t] EXCEPT !.pc = "c_post", !.err = "none"])
       ELSE Set(t, [thr[t] EXCEPT !.pc = "raised"])
    /\ UNCHANGED <<fields, file, active>>

ApiRetry_StaleHeader(t) ==
    /\ thr[t].pc = "retry"
    /\ Set(t, Log([thr[t] EXCEPT !.pc = "request", !.retry = @ - 1], "retry"))
    /\ UNCHANGED <<fields, file, active>>

\* headers.update(self.get_auth_header()); return self.api_call(..., retry=retry-1)
ApiRetry(t) ==
    /\ thr[t].pc = "retry"
    /\ Set(t, Log([thr[t] EXCEPT !.pc = "request", !.retry = @ - 1,
                                 !.headers = GetAuthHeader(access_token)], "retry"))
    /\ UNCHANGED <<fields, file, active>>

----------------------------------------------------------------------------
(* logout *)

Logout_ClearAfterRemove(t) ==
    /\ thr[t].pc \in Ready
    /\ IF Exists(file)
       THEN \/ /\ file' = Absent
               /\ access_token' = None
               /\ refresh_token' = None
               /\ did' = None
               /\ Set(t, Log([Locals EXCEPT !.pc = "logged_out", !.cur = "logout"],
                             "removed"))
            \/ /\ file' = file
               /\ UNCHANGED fields
               /\ Set(t, Log([Locals EXCEPT !.pc = "logged_out", !.cur = "logout",
                                            !.err = "OSError"], "remove_failed"))
       ELSE /\ file' = file
            /\ access_token' = None
            /\ refresh_token' = None
            /\ did' = None
            /\ Set(t, [Locals EXCEPT !.pc = "logged_out", !.cur = "logout"])
    /\ UNCHANGED active

\* fields cleared; the file, if there, is removed, and an OSError from
\* os.remove is only logged
Logout(t) ==
    /\ thr[t].pc \in Ready
    /\ access_token' = None
    /\ refresh_token' = None
    /\ did' = None
    /\ IF Exists(file)
       THEN \/ /\ file' = Absent
               /\ Set(t, Log([Locals EXCEPT !.pc = "logged_out", !.cur = "logout"],
                             "removed"))
            \/ /\ file' = file
               /\ Set(t, Log([Locals EXCEPT !.pc = "logged_out", !.cur = "logout",
                                            !.err = "OSError"], "remove_failed"))
       ELSE /\ file' = file
            /\ Set(t, [Locals EXCEPT !.pc = "logged_out", !.cur = "logout"])
    /\ UNCHANGED active

----------------------------------------------------------------------------
(* Specification: one thread of control (section 5's model) *)

Next ==
    \/ \E t \in active : BskySession_init(t)
    \/ \E t \in active : LoadSession(t)
    \/ \E t \in active : CreateSession_post(t)
    \/ \E t \in active : CreateSession_access(t)
    \/ \E t \in active : CreateSession_refresh(t)
    \/ \E t \in active : CreateSession_did(t)
    \/ \E t \in active : SaveSession_build(t)
    \/ \E t \in active : SaveSession_write(t)
    \/ \E t \in active : RefreshAccessToken_check(t)
    \/ \E t \in active : RefreshAccessToken_post(t)
    \/ \E t \in active : RefreshAccessToken_access(t)
    \/ \E t \in active : RefreshAccessToken_refresh(t)
    \/ \E t \in active : RefreshAccessToken_did(t)
    \/ \E t \in active : ApiCall(t)
    \/ \E t \in active : ApiRequest(t)
    \/ \E t \in active : ApiDispatch(t)
    \/ \E t \in active : ApiExcept(t)
    \/ \E t \in active : ApiRetry(t)
    \/ \E t \in active : Logout(t)

Spec == Init /\ [][Next]_vars

----------------------------------------------------------------------------
(* Specification: two threads making guarded calls on one shared instance *)

\* the bodies of the createSession response the shared instance was built from
FirstResponse == [accessJwt |-> "A1", refreshJwt |-> "R1", did |-> "did1"]

\* the instance after a constructor that created the session: the three
\* fields come from one createSession response and the file holds them
InitConc ==
    /\ access_token = FirstResponse.accessJwt
    /\ refresh_token = FirstResponse.refreshJwt
    /\ did = FirstResponse.did
    /\ file = Record(FirstResponse)
    /\ thr = [t \in Threads |-> [Locals EXCEPT !.pc = "idle", !.cur = "init"]]
    /\ active = Threads

\* api_call("app.bsky.actor.getProfile") with retry left at its default, as
\* a thread's one call on the instance
ApiCallDefault(t) ==
    /\ thr[t].pc = "idle"
    /\ Set(t, [Locals EXCEPT !.pc = "request", !.cur = "api_call",
                             !.retry = DefaultRetry, !.budget = DefaultRetry,
                             !.args = "getProfile",
                             !.headers = GetAuthHeader(access_token)])
    /\ UNCHANGED <<fields, file, active>>

NextConc ==
    \/ \E t \in active : ApiCallDefault(t)
    \/ \E t \in active : ApiRequest(t)
    \/ \E t \in active : ApiDispatch(t)
    \/ \E t \in active : RefreshAccessToken_check(t)
    \/ \E t \in active : RefreshAccessToken_post(t)
    \/ \E t \in active : RefreshAccessToken_access(t)
    \/ \E t \in active : RefreshAccessToken_refresh(t)
    \/ \E t \in active : RefreshAccessToken_did(t)
    \/ \E t \in active : ApiExcept(t)
    \/ \E t \in active : CreateSession_post(t)
    \/ \E t \in active : CreateSession_access(t)
    \/ \E t \in active : CreateSession_refresh(t)
    \/ \E t \in active : CreateSession_did(t)
    \/ \E t \in active : SaveSession_build(t)
    \/ \E t \in active : SaveSession_write(t)
    \/ \E t \in active : ApiRetry(t)

SpecConc == InitConc /\ [][NextConc]_vars

----------------------------------------------------------------------------
(* Reading the trace *)

Count(seq, e) == Cardinality({i \in 1..Len(seq) : seq[i] = e})

Has(seq, e) == \E i \in 1..Len(seq) : seq[i] = e

LastOf(seq) == IF Len(seq) = 0 THEN "none" ELSE seq[Len(seq)]

\* api_call of t is over: it returned the body or raised
Over(t) == thr[t].cur = "api_call" /\ thr[t].pc \in {"returned", "raised"}

\* the session file holds exactly the three in-memory fields
FileMatchesMemory ==
    /\ file.kind = "record"
    /\ Get(file.data, "accessJwt") = access_token
    /\ Get(file.data, "refreshJwt") = refresh_token
    /\ Get(file.data, "did") = did

----------------------------------------------------------------------------
(* Claims *)

\* C1 -- Recovery ordering: inside api_call a recovery (401/400 with budget
\* left) starts with _refresh_access_token, never with _create_session, and
\* _create_session is invoked only right after that refresh attempt failed
\* (so never after a refresh that succeeded).
RecoveryOrdering ==
    \A t \in Threads :
      LET tr == thr[t].trace IN
      thr[t].cur = "api_call" =>
        \A i \in 1..Len(tr) :
          /\ (tr[i] = "recover" /\ i < Len(tr)) => tr[i + 1] = "refresh"
          /\ tr[i] = "create" => (i > 1 /\ tr[i - 1] = "refresh_fail")
          /\ (tr[i] = "refresh_ok" /\ i < Len(tr)) => tr[i + 1] = "retry"

\* a recovery in which the refresh failed and the fallback Create succeeded
RecoveryOrdering_Witness ==
    \E t \in Threads :
      /\ thr[t].cur = "api_call"
      /\ Has(thr[t].trace, "refresh_fail")
      /\ Has(thr[t].trace, "create_ok")

\* C2 -- Retry budget: a call started with budget n makes at most n
\* recoveries and sends at most n+1 requests; when every request was
\* answered with 401/400 and every recovery succeeded, it made exactly n
\* recoveries, sent exactly n+1 requests and ended by raising the HTTP error.
RetryBudget ==
    \A t \in Threads :
      LET r == thr[t] IN
      r.cur = "api_call" =>
        /\ Count(r.trace, "recover") <= r.budget
        /\ Count(r.trace, "request") <= r.budget + 1
        /\ ( /\ Over(t)
             /\ Len(r.statuses) = Count(r.trace, "request")
             /\ \A i \in 1..Len(r.statuses) : r.statuses[i] \in AuthFailureSet
             /\ Count(r.trace, "retry") = Count(r.trace, "recover") )
           => /\ Count(r.trace, "recover") = r.budget
              /\ Count(r.trace, "request") = r.budget + 1
              /\ r.pc = "raised"
              /\ r.err = "HTTPError"

\* the default budget: two 401 answers, one recovery, then the error
RetryBudget_Witness ==
    \E t \in Threads :
      /\ Over(t)
      /\ thr[t].budget = DefaultRetry
      /\ thr[t].statuses = <<401, 401>>
      /\ Count(thr[t].trace, "recover") = 1
      /\ thr[t].err = "HTTPError"

\* C3 -- Missing refresh token falls back to Create: once a recovery has
\* found refresh_token absent and api_call has dealt with that, the next
\* thing done is _create_session (no refreshSession request in between).
MissingTokenFallsBackToCreate ==
    \A t \in Threads :
      LET tr == thr[t].trace IN
      \A i \in 1..Len(tr) :
        (tr[i] = "missing_token" /\ thr[t].pc # "r_except")
          => (i + 2 <= Len(tr) /\ tr[i + 2] = "create")

\* C4 -- Auth-failure exhaustion is a distinct outcome: the error api_call
\* raises for a 401/400 answer with no budget left is of another kind than
\* the one it raises for a generic non-2xx answer such as 500.
ExhaustionIsDistinct ==
    \A t \in Threads :
      ( /\ Over(t)
        /\ thr[t].pc = "raised"
        /\ LastOf(thr[t].trace) = "request"
        /\ Len(thr[t].statuses) = Count(thr[t].trace, "request")
        /\ thr[t].status \in AuthFailureSet
        /\ thr[t].retry = 0 )
      => thr[t].err # RaiseForStatus(500)

\* C5 -- Connection-category error on every Create/Refresh failure: when
\* the exchange of _create_session or _refresh_access_token fails, with no
\* response or with a non-2xx one, the operation ends with ConnectionError.
ExchangeFailureIsConnectionError ==
    \A t \in Threads :
      ( /\ thr[t].exchange \in {"transport", "http_error"}
        /\ LastOf(thr[t].trace) \in {"create_fail", "refresh_fail"}
        /\ thr[t].pc \in {"r_except", "raised", "init_raised"} )
      => thr[t].err = "ConnectionError"

\* C6 -- Write-through persistence: right after a Create or Refresh has
\* returned (the constructor returns, or api_call is about to retry) the
\* session file exists and holds the in-memory access_token, refresh_token
\* and did.
WriteThrough ==
    \A t \in active :
      ( \/ thr[t].pc = "retry"
        \/ thr[t].pc = "idle" /\ LastOf(thr[t].trace) = "create_ok" )
      => FileMatchesMemory

\* a refresh inside a recovery has just returned
WriteThrough_Witness ==
    \E t \in active :
      /\ thr[t].pc = "retry"
      /\ LastOf(thr[t].trace) = "refresh_ok"
      /\ access_token \in AccessJwts
      /\ refresh_token \in RefreshJwts

\* C7 (as claimed) -- whenever the constructor returns, access_token is
\* present, whatever the session file held.
BootstrapAlwaysHasToken ==
    \A t \in Threads : thr[t].pc = "idle" => access_token # None

\* C7 (amended) -- Bootstrap postcondition: when the constructor returns,
\* access_token is present unless the file was decoded as an object whose
\* accessJwt is missing or null (taken over as it is); a constructor that
\* does not return has raised an error.
BootstrapPostcondition ==
    \A t \in Threads :
      /\ thr[t].pc = "idle" =>
           \/ access_token # None
           \/ /\ LastOf(thr[t].trace) = "loaded"
              /\ file.kind = "record"
              /\ Get(file.data, "accessJwt") = None
      /\ thr[t].pc = "init_raised" => thr[t].err # "none"

\* the constructor returned after a Create on an unusable file
BootstrapPostcondition_Witness ==
    \E t \in Threads :
      /\ thr[t].pc = "idle"
      /\ thr[t].trace[1] \in {"absent", "corrupt", "unreadable"}
      /\ access_token \in AccessJwts

\* C8 -- Idempotent bootstrap: when _load_session decodes an object from the
\* session file, the constructor returns with the three fields equal to the
\* object's values (None for a missing one), the file is left as it is and
\* nothing was sent to the network.
IdempotentBootstrap ==
    [][\A t \in Threads :
         (thr[t].pc = "load" /\ thr'[t].pc # "load" /\ thr'[t].trace[1] = "record")
           => /\ thr'[t].pc = "idle"
              /\ access_token' = Get(file.data, "accessJwt")
              /\ refresh_token' = Get(file.data, "refreshJwt")
              /\ did' = Get(file.data, "did")
              /\ file' = file
              /\ thr'[t].trace = <<"record", "loaded">>
              /\ thr'[t].err = "none"]_vars

\* a saved session with both tokens was loaded
IdempotentBootstrap_Witness ==
    \E t \in Threads :
      /\ thr[t].pc = "idle"
      /\ thr[t].trace = <<"record", "loaded">>
      /\ access_token \in AccessJwts
      /\ refresh_token \in RefreshJwts
      /\ did \in Dids

LogoutForgetsTokens ==
    \A t \in Threads :
      thr[t].pc = "logged_out"
        => \/ ~Exists(file)
           \/ \A readable \in BOOLEAN : LoadBranch(Found(file, readable)) = "create"

\* C11 -- Logout's in-memory effect is unconditional: once logout has
\* returned, access_token, refresh_token and did are all absent, whether or
\* not there was a file and whether or not os.remove failed; a failed
\* removal is reported (logged) and logout still returns.
LogoutClearsFields ==
    \A t \in Threads :
      thr[t].cur = "logout" =>
        /\ thr[t].pc = "logged_out"
        /\ access_token = None
        /\ refresh_token = None
        /\ did = None
        /\ Has(thr[t].trace, "remove_failed") => (thr[t].err = "OSError" /\ Exists(file))

\* logout returned although the file with tokens could not be removed
LogoutClearsFields_Witness ==
    \E t \in Threads :
      /\ thr[t].pc = "logged_out"
      /\ LastOf(thr[t].trace) = "remove_failed"
      /\ file.kind = "record"
      /\ Get(file.data, "accessJwt") \in AccessJwts

\* C12 -- Persistence failure fails the operation: when _save_session fails
\* inside Create or Refresh, the IOError is what the constructor or api_call
\* raises; nothing follows the failure (no fallback Create, no retry of the
\* request).
SaveFailureFailsOperation ==
    \A t \in Threads :
      LET tr == thr[t].trace IN
      \A i \in 1..Len(tr) :
        tr[i] = "save_failed" =>
          /\ Len(tr) = i + 1
          /\ thr[t].err = "IOError"
          /\ thr[t].pc \in {"r_except", "raised", "init_raised"}
          /\ thr[t].cur = "init" => thr[t].pc = "init_raised"

\* api_call raised the IOError of a refresh whose save failed
SaveFailureFailsOperation_Witness ==
    \E t \in Threads :
      /\ thr[t].cur = "api_call"
      /\ thr[t].pc = "raised"
      /\ thr[t].err = "IOError"
      /\ thr[t].op = "Refresh"
      /\ Has(thr[t].trace, "save_failed")

\* C13 -- Credentials are never persisted: the session file never holds
\* anything but accessJwt, refreshJwt and did, and none of its values is the
\* handle or the app password.
CredentialsNeverPersisted ==
    /\ DOMAIN file.data \subseteq Keys
    /\ \A k \in DOMAIN file.data : file.data[k] \notin {Handle, AppPassword}

\* a file written by _save_session after a Create or Refresh
CredentialsNeverPersisted_Witness ==
    \E t \in Threads :
      /\ LastOf(thr[t].trace) \in {"create_ok", "refresh_ok"}
      /\ file = Record(thr[t].dump)
      /\ DOMAIN file.data = Keys

\* C14 -- Refresh precondition: _refresh_access_token invoked with
\* refresh_token absent raises ValueError at once, sends no refreshSession
\* request and leaves the three fields and the session file as they are.
RefreshPrecondition ==
    [][\A t \in Threads :
         (thr[t].pc = "r_check" /\ refresh_token = None /\ thr'[t] # thr[t])
           => /\ thr'[t].err = "ValueError"
              /\ thr'[t].pc = "r_except"
              /\ Count(thr'[t].trace, "refresh_post") = Count(thr[t].trace, "refresh_post")
              /\ thr'[t].exchange = thr[t].exchange
              /\ LastOf(thr'[t].trace) = "refresh_fail"
              /\ access_token' = access_token
              /\ refresh_token' = refresh_token
              /\ did' = did
              /\ file' = file]_vars

\* a refresh was refused for want of a refresh token
RefreshPrecondition_Witness ==
    \E t \in Threads :
      /\ thr[t].pc = "r_except"
      /\ thr[t].err = "ValueError"
      /\ Has(thr[t].trace, "missing_token")
      /\ refresh_token = None
      /\ access_token \in AccessJwts

\* C16 -- Write-through before commit: whenever no operation is running, a
\* token held in memory is also the one in the session file, also after a
\* Create or Refresh whose save failed.
NoUnsavedToken ==
    \A t \in active :
      (thr[t].pc \in Ready /\ (access_token # None \/ refresh_token # None))
        => /\ file.kind = "record"
           /\ Get(file.data, "accessJwt") = access_token
           /\ Get(file.data, "refreshJwt") = refresh_token

\* C17 -- Retried attempt uses the recovered token: every request of
\* api_call carries the caller's arguments and, as bearer, the access_token
\* current when it is sent; the request after a recovery carries the
\* accessJwt of that recovery's response; each retry lowers the budget by 1.
RetryUsesRecoveredToken ==
    \A t \in active :
      LET r == thr[t] IN
      r.cur = "api_call" =>
        /\ \A i \in 1..Len(r.sent) :
             /\ r.sent[i].args = r.args
             /\ r.sent[i].bearer = <<"Bearer", r.sent[i].current>>
        /\ r.retry = r.budget - Count(r.trace, "retry")
        /\ Len(r.sent) = Count(r.trace, "request")
        /\ (LastOf(r.trace) = "request" /\ Has(r.trace, "retry"))
             => r.sent[Len(r.sent)].bearer = <<"Bearer", r.session["accessJwt"]>>

\* a retried request went out with a token other than the first one
RetryUsesRecoveredToken_Witness ==
    \E t \in active :
      /\ thr[t].cur = "api_call"
      /\ Len(thr[t].sent) = 2
      /\ thr[t].sent[1].bearer = <<"Bearer", "A1">>
      /\ thr[t].sent[2].bearer = <<"Bearer", "A2">>
      /\ thr[t].retry = thr[t].budget - 1

FailedExchangeKeepsSession ==
    [][\A t \in Threads :
         thr'[t] # thr[t] =>
           /\ ( /\ thr[t].pc \in {"c_post", "r_post"}
                /\ thr'[t].exchange \in {"transport", "http_error"} )
                => /\ thr'[t].err # "none"
                   /\ thr'[t].pc \in {"r_except", "raised", "init_raised"}
                   /\ LastOf(thr'[t].trace) \in {"create_fail", "refresh_fail"}
                   /\ thr'[t].sent = thr[t].sent
                   /\ access_token' = access_token
                   /\ refresh_token' = refresh_token
                   /\ did' = did
                   /\ file' = file
           /\ thr[t].pc = "r_except"
                => /\ thr'[t].pc \in {"c_post", "raised"}
                   /\ thr'[t].sent = thr[t].sent
                   /\ access_token' = access_token
                   /\ refresh_token' = refresh_token
                   /\ did' = did
                   /\ file' = file
           /\ (thr'[t].cur = "api_call" /\ LastOf(thr'[t].trace) = "create_fail")
                => (thr'[t].pc = "raised" /\ thr'[t].err # "none")]_vars

\* refresh rejected, fallback Create rejected too, session still loaded
FailedExchangeKeepsSession_Witness ==
    \E t \in active :
      /\ thr[t].cur = "api_call"
      /\ thr[t].pc = "raised"
      /\ thr[t].exchange = "http_error"
      /\ Has(thr[t].trace, "refresh_fail")
      /\ LastOf(thr[t].trace) = "create_fail"
      /\ access_token \in AccessJwts
      /\ FileMatchesMemory

\* positions inside _create_session, _refresh_access_token or _save_session
InLifecycle(t) ==
    thr[t].pc \in {"r_post", "r_access", "r_refresh", "r_did", "c_post", "c_access",
                   "c_refresh", "c_did", "save_build", "save_write"}

\* C15 -- Serialized lifecycle mutations: with several threads making
\* guarded calls on one instance, at most one of them is inside a Create, a
\* Refresh or a write of the session file at any time.
OneLifecycleMutationAtATime ==
    Cardinality({t \in active : InLifecycle(t)}) <= 1

\* C20 -- No mixed tokens under interleaving: when both concurrent calls
\* went through a recovery that succeeded and both are over, the three
\* fields are the tokens of one single response and the session file holds
\* exactly these.
NoMixedTokens ==
    (\A t \in Threads : Over(t) /\ Has(thr[t].trace, "retry"))
      => /\ FileMatchesMemory
         /\ \E t \in Threads :
              /\ access_token = thr[t].session["accessJwt"]
              /\ refresh_token = thr[t].session["refreshJwt"]
              /\ did = thr[t].session["did"]

====
